---- MODULE Spec2Model ----
(***************************************************************************)
(* BTK Management System (src/script.js): the DataManager (cache-aside     *)
(* document store over fetch + localStorage), the Router (named view       *)
(* modules) and the render chains of the five view modules.                *)
(*                                                                         *)
(* JavaScript values are tagged records, plain objects used as maps        *)
(* (DataManager.cache, Router.modules, the defaults table) are functions   *)
(* from their own property names, and a property read falls back to        *)
(* Object.prototype as obj[key] does.  Every suspended async call (an      *)
(* awaited fetch) is one entry of `pending`; the code between two awaits   *)
(* that suspend is one atomic step.                                        *)
(*                                                                         *)
(* Several specifications share the operations: Spec (DataManager, Router  *)
(* and the render chains), RouterSpec (the Router and its renders), DmSpec *)
(* (DataManager and ThemeManager over localStorage), ThemeSpec (the        *)
(* ThemeManager over any stored theme), RefSpec (the DataManager with its  *)
(* objects kept by address) and ModSpec (the operations of the four list   *)
(* modules on their documents).                                            *)
(***************************************************************************)
EXTENDS Integers, Sequences, FiniteSets, TLC

VARIABLES
  cache,        \* DataManager.cache: own property name -> value
  store,        \* localStorage: key -> string
  pending,      \* sequence of async calls suspended at a fetch
  currentView,  \* Router.currentView
  modules,      \* Router.modules: own property name -> module
  app,          \* content of the #app element
  editorStyles, \* DocumentLibraryModule.editorStyles
  currentTheme, \* ThemeManager.currentTheme
  currentDoc,   \* DocumentLibraryModule.currentDoc
  currentProject, \* CreativeStudioModule.currentProject
  linked,       \* which of the two is the very object held in the cached document
  ids,          \* number of ids generateId has returned
  heap,         \* the objects load has returned, by address (reference model)
  durable,      \* history: document name -> the value whose text localStorage holds
  did,          \* history: the module operation that finished last
  last,         \* history: the DataManager call that completed last
  nav,          \* history: the last Router.navigate call
  untouched,    \* history: names neither loaded nor written since the last cache clear
  dropped,      \* history: names stored, and not saved since the cache was last emptied
  failed,       \* history: view modules whose async render raised
  invoked,      \* history: the last render() invocation, and the operation that made it
  regs,         \* history: view name -> the module of the last registerModule call
  ops           \* number of operations issued so far (bounds the run)

vars == <<cache, store, pending, currentView, modules, app, editorStyles,
          currentTheme, currentDoc, currentProject, linked, ids, heap, durable,
          did, last, nav, untouched, dropped, failed, invoked, regs, ops>>

----------------------------------------------------------------------------
(* Bounds of the model *)

MaxOps == 4
MaxPending == 1
\* module operations suspended at the same time
MaxOverlap == 2

----------------------------------------------------------------------------
(* JavaScript values *)

Undefined == [t |-> "undefined"]
JNull == [t |-> "null"]
JNum(n) == [t |-> "num", n |-> n]
JBool(b) == [t |-> "bool", b |-> b]
JStr(s) == [t |-> "str", s |-> s]
JArr(a) == [t |-> "arr", a |-> a]
JObj(f) == [t |-> "obj", f |-> f]
Prop(k, v) == [k |-> k, v |-> v]
\* Object.prototype.constructor, the function Object
ObjectCtor == [t |-> "function", name |-> "Object"]

\* ToBoolean, as applied by if (...), || and !
Truthy(v) ==
  CASE v.t = "undefined" -> FALSE
    [] v.t = "null" -> FALSE
    [] v.t = "bool" -> v.b
    [] v.t = "num" -> v.n # 0
    [] v.t = "str" -> v.s # ""
    [] OTHER -> TRUE

\* can a property of v be read (v.x)?  null.x and undefined.x raise TypeError
Readable(v) == v.t \notin {"undefined", "null"}

\* property names every plain object inherits from Object.prototype
ProtoKeys == {"constructor"}

\* obj[key] on a plain object literal whose own properties are `own`
PlainLookup(own, key) ==
  IF key \in DOMAIN own THEN own[key]
  ELSE IF key \in ProtoKeys THEN ObjectCtor
  ELSE Undefined

\* obj[key] = v
PlainSet(own, key, v) ==
  [k \in DOMAIN own \cup {key} |-> IF k = key THEN v ELSE own[k]]

EmptyObject == [k \in {} |-> Undefined]

RECURSIVE Stringify(_)
RECURSIVE JoinElems(_)
RECURSIVE JoinProps(_)

JoinElems(a) ==
  IF a = <<>> THEN ""
  \* an undefined element is written as null
  ELSE (IF a[1].t \in {"undefined", "function"} THEN "null" ELSE Stringify(a[1]))
       \o (IF Len(a) > 1 THEN "," ELSE "") \o JoinElems(Tail(a))

JoinProps(f) ==
  IF f = <<>> THEN ""
  ELSE "\"" \o f[1].k \o "\":" \o Stringify(f[1].v)
       \o (IF Len(f) > 1 THEN "," ELSE "") \o JoinProps(Tail(f))

\* JSON.stringify(v), then the string conversion localStorage.setItem applies
Stringify(v) ==
  CASE v.t = "null" -> "null"
    [] v.t = "bool" -> IF v.b THEN "true" ELSE "false"
    [] v.t = "num" -> ToString(v.n)
    [] v.t = "str" -> "\"" \o v.s \o "\""
    [] v.t = "arr" -> "[" \o JoinElems(v.a) \o "]"
    [] v.t = "obj" -> "{" \o JoinProps(v.f) \o "}"
    [] OTHER -> "undefined"

----------------------------------------------------------------------------
(* ThemeManager *)

ThemeKey == "btk-theme"

\* the constructor: localStorage.getItem('btk-theme') || 'light'
readTheme(s) ==
  IF ThemeKey \in DOMAIN s /\ s[ThemeKey] # "" THEN s[ThemeKey] ELSE "light"

\* applyTheme: localStorage.setItem('btk-theme', theme)
themeStore(s, theme) == PlainSet(s, ThemeKey, theme)

\* toggleTheme: the other theme
otherTheme(theme) == IF theme = "light" THEN "dark" ELSE "light"

----------------------------------------------------------------------------
(* DataManager *)

DocNames == {"dashboard.json", "documents.json", "knowledge.json",
             "writing_projects.json", "tasks.json"}

defaults ==
  [n \in DocNames |->
    CASE n = "dashboard.json" ->
           JObj(<<Prop("tasks", JArr(<<>>)), Prop("reviews", JArr(<<>>)),
                  Prop("writingProgress", JObj(<<>>)),
                  Prop("knowledgeSummary", JObj(<<>>))>>)
      [] n = "documents.json" -> JObj(<<Prop("documents", JArr(<<>>))>>)
      [] n = "knowledge.json" -> JObj(<<Prop("items", JArr(<<>>))>>)
      [] n = "writing_projects.json" -> JObj(<<Prop("projects", JArr(<<>>))>>)
      [] n = "tasks.json" ->
           JObj(<<Prop("tasks", JArr(<<>>)), Prop("reviews", JArr(<<>>)),
                  Prop("metrics", JObj(<<>>))>>)]

getDefaultData(fileName) ==
  LET d == PlainLookup(defaults, fileName)
  IN IF Truthy(d) THEN d ELSE JObj(<<>>)

\* faulty variant of StoreKey: the key without the application prefix
StoreKeyBare(fileName) == fileName

\* the localStorage key of a document
StoreKey(fileName) == "btk_" \o fileName

\* the body the server answers to GET data/<fileName>
DocR == JObj(<<Prop("seed", JBool(TRUE))>>)
RemoteVals == {DocR}

\* the ways a retrieval ends: a parsed body, or one of the three failures
\* load catches (fetch rejects, !response.ok, response.json() rejects)
Outcomes ==
  {[kind |-> "ok", v |-> v] : v \in RemoteVals}
    \cup {[kind |-> k, v |-> Undefined] : k \in {"network", "http", "parse"}}

\* the history record of a DataManager call
NoCall ==
  [op |-> "none", name |-> "", arg |-> Undefined, result |-> Undefined,
   threw |-> FALSE, retrieved |-> FALSE, outcome |-> "none", own |-> FALSE,
   again |-> FALSE, first |-> FALSE, dropped |-> FALSE, saved |-> Undefined,
   overlapped |-> FALSE, cleared |-> {}, others |-> {}]

\* the value of the save(name, .) that completed just before, if one did
JustSaved(S, name) ==
  IF S.last.op = "save" /\ S.last.name = name /\ ~S.last.threw
  THEN S.last.arg ELSE Undefined

\* the cache-hit branch of load
loadHit(c, fileName) == Truthy(PlainLookup(c, fileName))

\* faulty variant of loadCache: a failed retrieval evicts the entry
loadCacheEvict(c, fileName, o) ==
  IF o.kind = "ok" THEN PlainSet(c, fileName, o.v)
  ELSE [k \in DOMAIN c \ {fileName} |-> c[k]]

\* the cache after the retrieval of fileName ended with outcome o
loadCache(c, fileName, o) ==
  IF o.kind = "ok" THEN PlainSet(c, fileName, o.v) ELSE c

\* faulty variant of loadResult: the catch block returns null
loadResultNull(fileName, o) ==
  IF o.kind = "ok" THEN o.v ELSE JNull

\* what load returns after the retrieval of fileName ended with outcome o
loadResult(fileName, o) ==
  IF o.kind = "ok" THEN o.v ELSE getDefaultData(fileName)

\* faulty variant of saveCache: the cache is replaced by one holding data only
saveCacheFresh(c, fileName, data) == PlainSet(EmptyObject, fileName, data)

\* the cache after save
saveCache(c, fileName, data) == PlainSet(c, fileName, data)

\* localStorage after save's setItem
saveStore(s, fileName, data) == PlainSet(s, StoreKey(fileName), Stringify(data))

----------------------------------------------------------------------------
(* View modules and their render chains *)

ViewModules == {"dashboard", "docLibrary", "knowledgeEnv", "writingStudio",
                "management"}
Module(id) == [t |-> "module", id |-> id]

\* the documents DashboardModule.loadData loads, in order
DashNames == <<"dashboard.json", "tasks.json", "documents.json",
               "knowledge.json", "writing_projects.json">>

\* the document each list view loads (showDocList, showKnowledgeList,
\* showProjectList, showTaskList)
ListDoc ==
  [docLibrary |-> "documents.json", knowledgeEnv |-> "knowledge.json",
   writingStudio |-> "writing_projects.json", management |-> "tasks.json"]

\* #app: whose markup it holds, and whether its inner containers are filled in
Content(owner, filled) == [owner |-> owner, filled |-> filled]

\* an async call suspended at a fetch
Task(kind, owner, pc, name, bad, S) ==
  [kind |-> kind, owner |-> owner, pc |-> pc, name |-> name, bad |-> bad,
   again |-> S.last.op = "load" /\ S.last.name = name /\ S.last.retrieved,
   first |-> name \in S.untouched, dropped |-> name \in S.dropped,
   saved |-> JustSaved(S, name), overlapped |-> FALSE, arg |-> Undefined]

RECURSIVE After(_, _, _, _, _)
RECURSIVE Call(_, _, _, _, _)

\* owner's code from the point where its load at step pc returned data, up to
\* its next suspension or its end
After(S, owner, pc, data, bad) ==
  IF owner = "client" THEN S
  ELSE IF owner = "dashboard" THEN
    LET b == bad \/ (pc >= 2 /\ ~Readable(data))
    IN IF pc < Len(DashNames)
       THEN Call(S, owner, pc + 1, DashNames[pc + 1], b)
       \* renderStats, renderContent
       ELSE IF b \/ S.app.owner # "dashboard"
            THEN [S EXCEPT !.failed = @ \cup {owner}]
            ELSE [S EXCEPT !.app = Content("dashboard", TRUE)]
  \* the list views: data.<list> || [], then getElementById(...).innerHTML = ...
  ELSE IF ~Readable(data) \/ S.app.owner # owner
       THEN [S EXCEPT !.failed = @ \cup {owner}]
       ELSE [S EXCEPT !.app = Content(owner, TRUE)]

\* await this.dm.load(name) by owner at step pc
Call(S, owner, pc, name, bad) ==
  IF loadHit(S.cache, name)
  THEN LET v == PlainLookup(S.cache, name)
           S1 == [S EXCEPT
                    !.last = [op |-> "load", name |-> name, arg |-> Undefined,
                              result |-> v, threw |-> FALSE, retrieved |-> FALSE,
                              outcome |-> "none", own |-> name \in DOMAIN S.cache,
                              again |-> FALSE, first |-> name \in S.untouched,
                              dropped |-> name \in S.dropped,
                              saved |-> JustSaved(S, name),
                              overlapped |-> FALSE, cleared |-> {},
                              others |-> {}],
                    !.untouched = @ \ {name}]
       IN After(S1, owner, pc, v, bad)
  ELSE [S EXCEPT !.pending = Append(@, Task("load", owner, pc, name, bad, S)),
                 !.untouched = @ \ {name}]

\* module.render() up to its first suspension
Render(S, m) ==
  LET R == [S EXCEPT !.rendered = Append(@, m)]
  IN IF m = "dashboard"
     THEN Call([R EXCEPT !.app = Content("dashboard", FALSE)],
               "dashboard", 1, DashNames[1], FALSE)
     ELSE IF m = "docLibrary"
     THEN [R EXCEPT !.pending =
             Append(@, Task("styles", m, 0, "editor_styles.json", FALSE, R))]
     ELSE Call([R EXCEPT !.app = Content(m, FALSE)], m, 1, ListDoc[m], FALSE)

\* DocumentLibraryModule.render after loadEditorStyles returned
StylesDone(S, o) ==
  Call([S EXCEPT !.app = Content("docLibrary", FALSE),
                 !.logged = IF o.kind = "ok" THEN @ ELSE Append(@, "error")],
       "docLibrary", 1, ListDoc["docLibrary"], FALSE)

----------------------------------------------------------------------------
(* Module operations on the documents *)
(* An entity keeps its id, its title and the fields the operations compute *)
(* with (status, parts, wordCount, highlights, notes, userNotes); free     *)
(* text and time stamps (description, content, createdAt, updatedAt) are   *)
(* left out.  this.currentDoc and this.currentProject are references: as   *)
(* long as the object is an entity of the cached document (`linked`), an   *)
(* assignment to one of its properties changes the cached document too.    *)

\* o.k for an own property of an object literal or a parsed JSON object
Get(o, k) ==
  LET hits == SelectSeq(o.f, LAMBDA p : p.k = k)
  IN IF hits = <<>> THEN Undefined ELSE hits[1].v

\* o.k = v: an existing property keeps its place, a new one comes last
Put(o, k, v) ==
  IF \E i \in DOMAIN o.f : o.f[i].k = k
  THEN JObj([i \in DOMAIN o.f |-> IF o.f[i].k = k THEN Prop(k, v) ELSE o.f[i]])
  ELSE JObj(Append(o.f, Prop(k, v)))

\* the array property of each document that holds its entities
ListKey ==
  [n \in DocNames \ {"dashboard.json"} |->
    CASE n = "tasks.json" -> "tasks"
      [] n = "documents.json" -> "documents"
      [] n = "knowledge.json" -> "items"
      [] n = "writing_projects.json" -> "projects"]

\* the entities of a document value, as a sequence
Entities(name, data) == Get(data, ListKey[name]).a

\* list.filter(e => e.id !== id)
filterOut(list, id) == SelectSeq(list, LAMBDA e : Get(e, "id") # JStr(id))

\* list.findIndex(e => e.id === id), 0 when there is none
findIndex(list, id) ==
  IF \E i \in DOMAIN list : Get(list[i], "id") = JStr(id)
  THEN CHOOSE i \in DOMAIN list :
         /\ Get(list[i], "id") = JStr(id)
         /\ \A j \in 1..(i - 1) : Get(list[j], "id") # JStr(id)
  ELSE 0

\* list.find(e => e.id === id)
find(list, id) ==
  IF findIndex(list, id) = 0 THEN Undefined ELSE list[findIndex(list, id)]

\* can a callback read e.id of every element?  It raises TypeError on an
\* undefined element
Whole(list) == \A i \in DOMAIN list : Readable(list[i])

\* the module field that refers into each document
FieldOf == [currentDoc |-> "documents.json",
            currentProject |-> "writing_projects.json"]

\* the fields still referring into the cached document of name once that
\* cache entry is another object
Unlinked(L, name) == {f \in L : FieldOf[f] # name}

\* the history record of a module operation
NoOp ==
  [op |-> "none", doc |-> "", id |-> "", title |-> "", confirmed |-> FALSE,
   entity |-> Undefined, loaded |-> FALSE, saved |-> FALSE, threw |-> FALSE,
   start |-> Undefined, data |-> Undefined, before |-> Undefined,
   after |-> Undefined, overlapped |-> FALSE]

\* the record of an operation on document doc, begun in state S
Op(S, op, doc) ==
  [NoOp EXCEPT !.op = op, !.doc = doc, !.start = PlainLookup(S.cache, doc)]

\* generateId(): distinct on every call
NewId(S) == ToString(S.ids + 1)

\* list with the element whose id is that of obj replaced by obj
replaced(list, obj) ==
  [i \in DOMAIN list |->
    IF Get(list[i], "id") = Get(obj, "id") THEN obj ELSE list[i]]

\* faulty variant of saveDocList: the document is always pushed
saveDocListPush(list, doc) == Append(list, doc)

\* saveDoc: data.documents[existingIndex] = doc when findIndex finds the id of
\* doc, data.documents.push(doc) otherwise
saveDocList(list, doc) ==
  IF findIndex(list, Get(doc, "id").s) > 0
  THEN replaced(list, doc) ELSE Append(list, doc)

\* an assignment to a property of this[field]: the object changes, and with it
\* the cached document when the object is one of its entities
Touch(S, field, obj) ==
  LET name == FieldOf[field]
      S1 == IF field = "currentDoc" THEN [S EXCEPT !.currentDoc = obj]
            ELSE [S EXCEPT !.currentProject = obj]
  IN IF field \in S.linked
     THEN LET data == PlainLookup(S.cache, name)
          IN [S1 EXCEPT !.cache =
                PlainSet(@, name,
                         Put(data, ListKey[name],
                             JArr(replaced(Entities(name, data), obj))))]
     ELSE S1

\* await this.dm.save(name, data) in a module operation, whose record is arg
Persist(S, name, data, arg) ==
  [S EXCEPT !.cache = saveCache(@, name, data),
            !.store = saveStore(@, name, data),
            !.durable = PlainSet(@, name, data),
            !.last = [NoCall EXCEPT !.op = "save", !.name = name, !.arg = data,
                                    !.result = JBool(TRUE),
                                    !.others = DOMAIN S.store \ {StoreKey(name)}],
            !.untouched = @ \ {name},
            !.dropped = @ \ {name},
            !.pending = [i \in DOMAIN @ |->
                          IF @[i].kind = "load" /\ @[i].name = name
                          THEN [@[i] EXCEPT !.overlapped = TRUE] ELSE @[i]],
            !.did = [arg EXCEPT !.saved = TRUE,
                                !.before = PlainLookup(S.durable, name),
                                !.after = data]]

\* the number of tasks whose status is 'completed'
completedTasks(tasks) ==
  Len(SelectSeq(tasks, LAMBDA t : Get(t, "status") = JStr("completed")))

\* item.k || 0 for a counter property
Count(item, k) == IF Truthy(Get(item, k)) THEN Get(item, k).n ELSE 0

\* faulty variant of noted: the counter is incremented, the note is not kept
notedCounterOnly(item, note) ==
  Put(item, "notes", JNum(Count(item, "notes") + 1))

\* addNote: item.notes = (item.notes || 0) + 1, and the note pushed onto
\* item.userNotes (made first when the item has none)
noted(item, note) ==
  LET userNotes == IF Truthy(Get(item, "userNotes"))
                   THEN Get(item, "userNotes").a ELSE <<>>
  IN Put(Put(item, "notes", JNum(Count(item, "notes") + 1)),
         "userNotes", JArr(Append(userNotes, JObj(<<Prop("text", JStr(note))>>))))

\* the part of a module operation that follows its await this.dm.load(name);
\* data is what load returned, fresh when it is a default object made for
\* this call and not the cached one
Resume(S, owner, name, arg, data, fresh) ==
  LET list == Entities(name, data)
      L == IF fresh THEN Unlinked(S.linked, name) ELSE S.linked
      a == [arg EXCEPT !.loaded = TRUE, !.data = data]
  IN CASE owner = "saveTask" ->
            LET tasks == Append(list, arg.entity)
                metrics == Put(Put(Get(data, "metrics"), "totalTasks",
                                   JNum(Len(tasks))),
                               "completedTasks", JNum(completedTasks(tasks)))
                d == Put(Put(data, "tasks", JArr(tasks)), "metrics", metrics)
            IN Call(Persist(S, name, d, a), "management", 1, name, FALSE)
       [] owner = "completeTask" ->
            LET task == find(list, arg.id)
                tasks == replaced(list, Put(task, "status", JStr("completed")))
                metrics == Put(Get(data, "metrics"), "completedTasks",
                               JNum(completedTasks(tasks)))
                d == Put(Put(data, "tasks", JArr(tasks)), "metrics", metrics)
            IN IF task = Undefined THEN [S EXCEPT !.linked = L, !.did = a]
               ELSE Call(Persist(S, name, d, a), "management", 1, name, FALSE)
       [] owner = "deleteTask" ->
            LET tasks == filterOut(list, arg.id)
                metrics == Put(Get(data, "metrics"), "totalTasks",
                               JNum(Len(tasks)))
                d == Put(Put(data, "tasks", JArr(tasks)), "metrics", metrics)
            IN Call(Persist(S, name, d, a), "management", 1, name, FALSE)
       [] owner = "editDoc" ->
            LET found == find(list, arg.id)
            IN IF ~Whole(list)
               THEN [S EXCEPT !.linked = L, !.did = [a EXCEPT !.threw = TRUE]]
               ELSE [S EXCEPT !.currentDoc = found,
                              !.linked = IF found = Undefined \/ fresh
                                         THEN L \ {"currentDoc"}
                                         ELSE L \cup {"currentDoc"},
                              !.did = a]
       [] owner = "saveDoc" ->
            LET doc == S.currentDoc
                b == [a EXCEPT !.entity = doc]
                d == Put(data, "documents", JArr(saveDocList(list, doc)))
                S1 == Persist(S, name, d, b)
                \* this.currentDoc is null or undefined by now
                none == Put(data, "documents", JArr(<<doc>>))
                S2 == Persist(S, name, none, b)
            IN IF ~Readable(doc) /\ list = <<>>
               \* findIndex calls no callback and push stores the value; the
               \* markdown version then raises on this.currentDoc.id
               THEN [S2 EXCEPT !.linked = L \ {"currentDoc"},
                               !.did = [@ EXCEPT !.threw = TRUE]]
               ELSE IF ~Readable(doc) \/ ~Whole(list)
               THEN [S EXCEPT !.linked = L, !.did = [a EXCEPT !.threw = TRUE]]
               ELSE [S1 EXCEPT
                  !.linked = L \cup {"currentDoc"},
                  \* the markdown version
                  !.store = PlainSet(@, "btk_doc_" \o Get(doc, "id").s \o ".md",
                                     "# " \o Get(doc, "title").s \o "\n\n")]
       [] owner = "deleteDoc" ->
            LET d == Put(data, "documents", JArr(filterOut(list, arg.id)))
                S1 == Persist(S, name, d, a)
                gone == Readable(S.currentDoc)
                          /\ Get(S.currentDoc, "id") = JStr(arg.id)
            IN IF ~Whole(list)
               THEN [S EXCEPT !.linked = L, !.did = [a EXCEPT !.threw = TRUE]]
               ELSE Call([S1 EXCEPT !.linked = IF gone THEN L \ {"currentDoc"}
                                               ELSE L],
                         "docLibrary", 1, name, FALSE)
       [] owner = "saveItem" ->
            LET item == JObj(<<Prop("id", JStr(NewId(S))),
                               Prop("title", JStr(arg.title)),
                               Prop("highlights", JNum(0)),
                               Prop("notes", JNum(0)),
                               Prop("userNotes", JArr(<<>>))>>)
                items == IF arg.id # ""
                         THEN IF findIndex(list, arg.id) > 0
                              THEN replaced(list, Put(find(list, arg.id), "title",
                                                      JStr(arg.title)))
                              ELSE list
                         ELSE Append(list, item)
                d == Put(data, "items", JArr(items))
                S1 == IF arg.id # "" THEN S ELSE [S EXCEPT !.ids = @ + 1]
            IN Call(Persist(S1, name, d, a), "knowledgeEnv", 1, name, FALSE)
       [] owner = "addHighlight" ->
            LET item == find(list, arg.id)
                d == Put(data, "items",
                         JArr(replaced(list, Put(item, "highlights",
                                                 JNum(Count(item, "highlights") + 1)))))
            IN IF item = Undefined THEN [S EXCEPT !.linked = L, !.did = a]
               \* save, then viewItem
               ELSE Call(Persist(S, name, d, a), "knowledgeEnv", 1, name, FALSE)
       [] owner = "addNote" ->
            LET item == find(list, arg.id)
                d == Put(data, "items", JArr(replaced(list, noted(item, arg.title))))
            IN IF item = Undefined THEN [S EXCEPT !.linked = L, !.did = a]
               ELSE Persist(S, name, d, a)
       [] owner = "deleteItem" ->
            LET d == Put(data, "items", JArr(filterOut(list, arg.id)))
            IN Call(Persist(S, name, d, a), "knowledgeEnv", 1, name, FALSE)
       [] owner = "saveNewProject" ->
            LET d == Put(data, "projects", JArr(Append(list, arg.entity)))
            IN Call(Persist(S, name, d, a), "writingStudio", 1, name, FALSE)
       [] owner = "openProject" ->
            LET found == find(list, arg.id)
            IN [S EXCEPT !.currentProject = found,
                         !.linked = IF found = Undefined \/ fresh
                                    THEN L \ {"currentProject"}
                                    ELSE L \cup {"currentProject"},
                         !.did = IF arg.op = "openProject" THEN a ELSE @]
       [] owner = "saveSection" ->
            LET project == S.currentProject
            IN IF findIndex(list, Get(project, "id").s) > 0
               THEN LET d == Put(data, "projects", JArr(replaced(list, project)))
                    IN [Persist(S, name, d, a) EXCEPT
                          !.linked = L \cup {"currentProject"}]
               ELSE [S EXCEPT !.linked = L, !.did = a]
       [] owner = "deleteProject" ->
            LET d == Put(data, "projects", JArr(filterOut(list, arg.id)))
                S1 == Persist(S, name, d, a)
                gone == /\ Readable(S.currentProject)
                        /\ Get(S.currentProject, "id") = JStr(arg.id)
            IN Call([S1 EXCEPT !.linked = IF gone THEN L \ {"currentProject"}
                                          ELSE L],
                    "writingStudio", 1, name, FALSE)

\* await this.dm.load(name) in the module operation owner
Await(S, owner, name, arg) ==
  IF loadHit(S.cache, name)
  THEN LET v == PlainLookup(S.cache, name)
           S1 == [S EXCEPT
                    !.last = [NoCall EXCEPT
                                !.op = "load", !.name = name, !.result = v,
                                !.own = name \in DOMAIN S.cache,
                                !.first = name \in S.untouched,
                                !.dropped = name \in S.dropped,
                                !.saved = JustSaved(S, name)],
                    !.untouched = @ \ {name}]
       IN Resume(S1, owner, name, arg, v, FALSE)
  ELSE [S EXCEPT
          !.pending = Append(@, [Task("load", owner, 1, name, FALSE, S)
                                   EXCEPT !.arg = arg]),
          !.untouched = @ \ {name}]

\* the retrieval of task ended with outcome o: the rest of load, then the caller
Complete(S, task, o) ==
  LET S1 == [S EXCEPT
               !.cache = loadCache(@, task.name, o),
               !.last = [op |-> "load", name |-> task.name, arg |-> Undefined,
                         result |-> loadResult(task.name, o), threw |-> FALSE,
                         retrieved |-> TRUE,
                         outcome |-> o.kind, own |-> FALSE,
                         again |-> task.again, first |-> task.first,
                         dropped |-> task.dropped, saved |-> task.saved,
                         overlapped |-> task.overlapped, cleared |-> {},
                         others |-> {}],
               !.untouched = IF o.kind = "ok" THEN @ \ {task.name} ELSE @,
               \* the cached document is now another object
               !.linked = IF o.kind = "ok" THEN Unlinked(@, task.name) ELSE @,
               \* console.error in the catch block
               !.logged = IF o.kind = "ok" THEN @ ELSE Append(@, "error")]
  IN IF task.arg = Undefined
     THEN After(S1, task.owner, task.pc, loadResult(task.name, o), task.bad)
     ELSE Resume(S1, task.owner, task.name,
                 [task.arg EXCEPT !.overlapped = task.overlapped],
                 loadResult(task.name, o), o.kind # "ok")

\* ManagementModule.saveTask, the form holding title and status
saveTask(S, title, status) ==
  LET a == [Op(S, "saveTask", "tasks.json") EXCEPT !.title = title]
      task == JObj(<<Prop("id", JStr(NewId(S))), Prop("title", JStr(title)),
                     Prop("status", JStr(status))>>)
  IN IF title = "" THEN [S EXCEPT !.did = a]
     ELSE Await([S EXCEPT !.ids = @ + 1], "saveTask", "tasks.json",
                [a EXCEPT !.id = NewId(S), !.entity = task])

\* ManagementModule.completeTask(taskId)
completeTask(S, taskId) ==
  Await(S, "completeTask", "tasks.json",
        [Op(S, "completeTask", "tasks.json") EXCEPT !.id = taskId])

\* the delete operation op of a module on its document, the confirm dialog
\* answered by confirmed
delete(S, op, name, id, confirmed) ==
  LET a == [Op(S, op, name) EXCEPT !.id = id, !.confirmed = confirmed]
  IN IF ~confirmed THEN [S EXCEPT !.did = a] ELSE Await(S, op, name, a)

\* DocumentLibraryModule.createNewDoc
createNewDoc(S) ==
  [S EXCEPT !.currentDoc = JObj(<<Prop("id", JStr(NewId(S))),
                                  Prop("title", JStr("new"))>>),
            !.ids = @ + 1,
            !.linked = @ \ {"currentDoc"},
            !.did = [Op(S, "createNewDoc", "documents.json")
                       EXCEPT !.id = NewId(S)]]

\* DocumentLibraryModule.editDoc(docId)
editDoc(S, docId) ==
  Await(S, "editDoc", "documents.json",
        [Op(S, "editDoc", "documents.json") EXCEPT !.id = docId])

\* DocumentLibraryModule.saveDoc, the editor holding title
saveDoc(S, title) ==
  LET a == [Op(S, "saveDoc", "documents.json") EXCEPT !.title = title]
  IN IF ~Readable(S.currentDoc)
     \* this.currentDoc.title = ... on null: TypeError
     THEN [S EXCEPT !.did = [a EXCEPT !.threw = TRUE]]
     ELSE Await(Touch(S, "currentDoc", Put(S.currentDoc, "title", JStr(title))),
                "saveDoc", "documents.json",
                [a EXCEPT !.id = Get(S.currentDoc, "id").s])

\* LearningEnvironmentModule.saveItem(itemId), the form holding title; itemId
\* is "" for a new item
saveItem(S, title, itemId) ==
  LET a == [Op(S, "saveItem", "knowledge.json")
              EXCEPT !.title = title, !.id = itemId]
  IN IF title = "" THEN [S EXCEPT !.did = a]
     ELSE Await(S, "saveItem", "knowledge.json", a)

\* LearningEnvironmentModule.addHighlight(itemId)
addHighlight(S, itemId) ==
  Await(S, "addHighlight", "knowledge.json",
        [Op(S, "addHighlight", "knowledge.json") EXCEPT !.id = itemId])

\* LearningEnvironmentModule.addNote(itemId), the prompt answered by note
\* ("" when it is cancelled or left empty)
addNote(S, itemId, note) ==
  LET a == [Op(S, "addNote", "knowledge.json")
              EXCEPT !.id = itemId, !.title = note]
  IN IF note = "" THEN [S EXCEPT !.did = a]
     ELSE Await(S, "addNote", "knowledge.json", a)

\* CreativeStudioModule.saveNewProject, the form holding title
saveNewProject(S, title) ==
  LET a == [Op(S, "saveNewProject", "writing_projects.json")
              EXCEPT !.title = title]
      project == JObj(<<Prop("id", JStr(NewId(S))), Prop("title", JStr(title)),
                        Prop("parts", JArr(<<>>)), Prop("wordCount", JNum(0))>>)
  IN IF title = "" THEN [S EXCEPT !.did = a]
     ELSE Await([S EXCEPT !.ids = @ + 1], "saveNewProject",
                "writing_projects.json",
                [a EXCEPT !.id = NewId(S), !.entity = project])

\* CreativeStudioModule.openProject(projectId)
openProject(S, projectId) ==
  Await(S, "openProject", "writing_projects.json",
        [Op(S, "openProject", "writing_projects.json") EXCEPT !.id = projectId])

\* CreativeStudioModule.addPart, the prompt answered by partName ("" when
\* it is cancelled or left empty)
addPart(S, partName) ==
  LET a == Op(S, "addPart", "writing_projects.json")
      project == S.currentProject
      parts == IF Truthy(Get(project, "parts")) THEN Get(project, "parts").a
               ELSE <<>>
      part == JObj(<<Prop("id", JStr(NewId(S))), Prop("title", JStr(partName)),
                     Prop("chapters", JArr(<<>>))>>)
      b == [a EXCEPT !.id = Get(project, "id").s, !.entity = part]
  IN IF partName = "" THEN [S EXCEPT !.did = a]
     ELSE IF ~Readable(project)
     \* this.currentProject.parts on null or undefined: TypeError
     THEN [S EXCEPT !.did = [a EXCEPT !.threw = TRUE]]
     ELSE Await([Touch([S EXCEPT !.ids = @ + 1], "currentProject",
                       Put(project, "parts", JArr(Append(parts, part))))
                   EXCEPT !.did = b],
                "openProject", "writing_projects.json", b)

\* CreativeStudioModule.saveSection, the editor holding words words
saveSection(S, words) ==
  LET a == Op(S, "saveSection", "writing_projects.json")
      project == S.currentProject
  IN IF ~Readable(project)
     \* this.currentProject.wordCount = ... on null or undefined: TypeError
     THEN [S EXCEPT !.did = [a EXCEPT !.threw = TRUE]]
     ELSE Await(Touch(S, "currentProject", Put(project, "wordCount", JNum(words))),
                "saveSection", "writing_projects.json",
                [a EXCEPT !.id = Get(project, "id").s])

----------------------------------------------------------------------------
(* Inputs *)

\* names passed to load and save: the documents, and a name every plain
\* object inherits
AllNames == DocNames \cup ProtoKeys
ClientNames == {"tasks.json"} \cup ProtoKeys
SaveNames == {"tasks.json"}

\* the value of the spec's scenario, {documents:[{id:"a"}]}, and two falsy
\* JSON values
DocA == JObj(<<Prop("documents", JArr(<<JObj(<<Prop("id", JStr("a"))>>)>>))>>)
SaveVals == {DocA, JNull, JNum(0)}

\* names passed to registerModule and to navigate
RegNames == {"dashboard", "docs"}
\* the registrations of lines 1667-1668, and one that replaces a module
Registrations == {<<"dashboard", "dashboard">>, <<"docs", "docLibrary">>,
                  <<"docs", "management">>}
ViewNames == RegNames \cup {"settings"} \cup ProtoKeys

NoNav ==
  [name |-> "", prev |-> JNull, found |-> Undefined, rendered |-> <<>>,
   threw |-> FALSE, placeholder |-> FALSE, logged |-> <<>>,
   latest |-> [id |-> "none", replaced |-> "none"]]

NoRender == [id |-> "none", by |-> "none"]

\* the last render() an operation invoked, if it invoked one
Invoked(S, by) ==
  IF S.rendered = <<>> THEN invoked
  ELSE [id |-> S.rendered[Len(S.rendered)], by |-> by]

\* the part of the state the render chains read and write
Here ==
  [cache |-> cache, app |-> app, failed |-> failed, last |-> last,
   untouched |-> untouched, dropped |-> dropped, pending |-> pending,
   rendered |-> <<>>, threw |-> FALSE, placeholder |-> FALSE, logged |-> <<>>,
   store |-> store, durable |-> durable, currentDoc |-> currentDoc,
   currentProject |-> currentProject, linked |-> linked, ids |-> ids,
   did |-> did]

\* the state the code has left
Assign(S) ==
  /\ cache' = S.cache
  /\ store' = S.store
  /\ durable' = S.durable
  /\ currentDoc' = S.currentDoc
  /\ currentProject' = S.currentProject
  /\ linked' = S.linked
  /\ ids' = S.ids
  /\ did' = S.did
  /\ app' = S.app
  /\ failed' = S.failed
  /\ last' = S.last
  /\ untouched' = S.untouched
  /\ dropped' = S.dropped
  /\ pending' = S.pending

Become(S) ==
  /\ Len(S.pending) <= MaxPending
  /\ Assign(S)

Remove(q, i) == [j \in 1..(Len(q) - 1) |-> IF j < i THEN q[j] ELSE q[j + 1]]

\* names with a value in localStorage
Stored == {n \in AllNames : StoreKey(n) \in DOMAIN store}

----------------------------------------------------------------------------
(* The state after the constructors (lines 47, 1655-1664) *)

\* s: what localStorage holds when the page is opened
Start(s) ==
  /\ cache = EmptyObject
  /\ store = s
  /\ pending = <<>>
  /\ currentView = JNull
  /\ modules = EmptyObject
  /\ app = Content("none", FALSE)
  /\ editorStyles = JNull
  /\ currentTheme = readTheme(s)
  /\ last = NoCall
  /\ nav = NoNav
  /\ untouched = {}
  /\ dropped = {}
  /\ failed = {}
  /\ invoked = NoRender
  /\ regs = EmptyObject
  /\ currentDoc = JNull
  /\ currentProject = JNull
  /\ linked = {}
  /\ ids = 0
  /\ heap = <<>>
  /\ durable = EmptyObject
  /\ did = NoOp
  /\ ops = 0

Init == Start(EmptyObject)

----------------------------------------------------------------------------
(* Operations *)

\* a caller awaits dataManager.load(fileName)
Load(fileName) ==
  /\ ops < MaxOps
  /\ ops' = ops + 1
  /\ Become(Call(Here, "client", 0, fileName, FALSE))
  /\ UNCHANGED <<heap, currentView, modules, editorStyles, currentTheme, nav, invoked,
                 regs>>

\* the fetch of the i-th suspended call ends with outcome o
FetchDone(i, o) ==
  /\ i \in 1..Len(pending)
  /\ LET task == pending[i]
         S == [Here EXCEPT !.pending = Remove(pending, i)]
     IN IF task.kind = "styles"
        THEN /\ editorStyles' = IF o.kind = "ok" THEN o.v ELSE editorStyles
             /\ Assign(StylesDone(S, o))
        ELSE /\ editorStyles' = editorStyles
             /\ Assign(Complete(S, task, o))
  /\ UNCHANGED <<heap, currentView, modules, currentTheme, nav, invoked, regs, ops>>

\* dataManager.save(fileName, data); quota: localStorage.setItem raises
Save(fileName, data, quota) ==
  /\ ops < MaxOps
  /\ ops' = ops + 1
  /\ cache' = saveCache(cache, fileName, data)
  /\ store' = IF quota THEN store ELSE saveStore(store, fileName, data)
  /\ last' = [NoCall EXCEPT !.op = "save", !.name = fileName, !.arg = data,
                            !.threw = quota,
                            !.others = DOMAIN store \ {StoreKey(fileName)},
                            !.result = IF quota THEN Undefined ELSE JBool(TRUE)]
  /\ untouched' = untouched \ {fileName}
  /\ dropped' = dropped \ {fileName}
  /\ pending' = [i \in DOMAIN pending |->
                   IF pending[i].kind = "load" /\ pending[i].name = fileName
                   THEN [pending[i] EXCEPT !.overlapped = TRUE]
                   ELSE pending[i]]
  /\ durable' = IF quota THEN durable ELSE PlainSet(durable, fileName, data)
  /\ linked' = Unlinked(linked, fileName)
  /\ UNCHANGED <<heap, currentView, modules, app, editorStyles, currentTheme, nav,
                 failed, invoked, regs, currentDoc, currentProject, ids, did>>

\* the refresh button of the dashboard view
Refresh ==
  LET S == Render([Here EXCEPT !.cache = EmptyObject, !.linked = {},
                               !.last = [NoCall EXCEPT !.op = "clear",
                                                       !.cleared = DOMAIN cache],
                               !.untouched = AllNames,
                               !.dropped = Stored],
                  "dashboard")
  IN /\ ops < MaxOps
     /\ ops' = ops + 1
     /\ app.owner = "dashboard"
     /\ Become(S)
     /\ invoked' = Invoked(S, "refresh")
     /\ UNCHANGED <<heap, currentView, modules, editorStyles, currentTheme, nav, regs>>

\* the page is reloaded: only localStorage survives
Reload ==
  /\ ops < MaxOps
  /\ ops' = ops + 1
  /\ cache' = EmptyObject
  /\ pending' = <<>>
  /\ currentView' = JNull
  /\ modules' = EmptyObject
  /\ app' = Content("none", FALSE)
  /\ editorStyles' = JNull
  /\ currentTheme' = readTheme(store)
  /\ last' = NoCall
  /\ nav' = NoNav
  /\ untouched' = {}
  /\ dropped' = Stored
  /\ failed' = {}
  /\ invoked' = NoRender
  /\ regs' = EmptyObject
  /\ currentDoc' = JNull
  /\ currentProject' = JNull
  /\ linked' = {}
  /\ ids' = 0
  /\ did' = NoOp
  /\ heap' = <<>>
  /\ UNCHANGED <<store, durable>>

\* faulty variant of registerModuleSet: the registry is replaced by one that
\* holds the new module only
registerModuleOnly(own, name, module) == PlainSet(EmptyObject, name, module)

\* faulty variant of registerModuleSet: a name already registered keeps its
\* module
registerModuleKeep(own, name, module) ==
  IF name \in DOMAIN own THEN own ELSE PlainSet(own, name, module)

\* registerModule: this.modules[name] = module
registerModuleSet(own, name, module) == PlainSet(own, name, module)

registerModule(name, module) ==
  /\ ops < MaxOps
  /\ ops' = ops + 1
  /\ modules' = registerModuleSet(modules, name, Module(module))
  /\ regs' = [n \in DOMAIN regs \cup {name} |->
                IF n = name
                THEN [id |-> module,
                      replaced |-> IF name \in DOMAIN regs /\ regs[name].id # module
                                   THEN regs[name].id ELSE "none"]
                ELSE regs[n]]
  /\ UNCHANGED <<heap, cache, store, pending, currentView, app, editorStyles,
                 currentTheme, last, nav, untouched, dropped, failed, invoked,
                 currentDoc, currentProject, linked, ids, durable, did>>

\* faulty variant of navigateView: the current view changes only when a
\* module is found
navigateViewFound(viewName) ==
  IF Truthy(PlainLookup(modules, viewName)) THEN JStr(viewName) ELSE currentView

\* navigate: this.currentView = viewName
navigateView(viewName) == JStr(viewName)

\* faulty variant of navigateShow: a navigate to the view already current
\* does nothing
navigateShowOnce(S, viewName, module) ==
  IF currentView = JStr(viewName) THEN S
  ELSE IF Truthy(module)
  THEN IF module.t = "module" THEN Render(S, module.id)
       ELSE [S EXCEPT !.threw = TRUE]
  ELSE [S EXCEPT !.app = Content("placeholder", TRUE), !.placeholder = TRUE]

\* navigate: render the module found, or show the placeholder
navigateShow(S, viewName, module) ==
  IF Truthy(module)
  THEN IF module.t = "module"
       THEN Render(S, module.id)
       \* module.render is not a function: TypeError
       ELSE [S EXCEPT !.threw = TRUE]
  ELSE [S EXCEPT !.app = Content("placeholder", TRUE), !.placeholder = TRUE]

navigate(viewName) ==
  LET module == PlainLookup(modules, viewName)
      S == navigateShow(Here, viewName, module)
  IN /\ ops < MaxOps
     /\ ops' = ops + 1
     /\ currentView' = navigateView(viewName)
     /\ Become(S)
     /\ nav' = [name |-> viewName, prev |-> currentView, found |-> module,
                rendered |-> S.rendered, threw |-> S.threw,
                placeholder |-> S.placeholder, logged |-> S.logged,
                latest |-> IF viewName \in DOMAIN regs THEN regs[viewName]
                           ELSE NoNav.latest]
     /\ invoked' = Invoked(S, "navigate")
     /\ UNCHANGED <<heap, modules, editorStyles, currentTheme, regs>>

\* themeManager.init(): applyTheme(this.currentTheme)
themeInit ==
  /\ ops < MaxOps
  /\ ops' = ops + 1
  /\ store' = themeStore(store, currentTheme)
  /\ UNCHANGED <<heap, cache, pending, currentView, modules, app, editorStyles,
                 currentTheme, last, nav, untouched, dropped, failed, invoked,
                 regs, currentDoc, currentProject, linked, ids, durable, did>>

\* the theme button: applyTheme of the other theme
toggleTheme ==
  /\ ops < MaxOps
  /\ ops' = ops + 1
  /\ currentTheme' = otherTheme(currentTheme)
  /\ store' = themeStore(store, otherTheme(currentTheme))
  /\ UNCHANGED <<heap, cache, pending, currentView, modules, app, editorStyles, last,
                 nav, untouched, dropped, failed, invoked, regs, currentDoc,
                 currentProject, linked, ids, durable, did>>

\* a caller calls dataManager.getDefaultData(fileName)
Default(fileName) ==
  /\ ops < MaxOps
  /\ ops' = ops + 1
  /\ last' = [NoCall EXCEPT !.op = "getDefaultData", !.name = fileName,
                            !.result = getDefaultData(fileName)]
  /\ UNCHANGED <<heap, cache, store, pending, currentView, modules, app,
                 editorStyles, currentTheme, nav, untouched, dropped, failed,
                 invoked, regs, currentDoc, currentProject, linked, ids,
                 durable, did>>

Next ==
  \/ \E n \in ClientNames : Load(n)
  \/ \E i \in 1..MaxPending, o \in Outcomes : FetchDone(i, o)
  \/ \E n \in SaveNames, v \in SaveVals, q \in BOOLEAN : Save(n, v, q)
  \/ Refresh
  \/ Reload
  \/ \E r \in Registrations : registerModule(r[1], r[2])
  \/ \E n \in ViewNames : navigate(n)

Spec == Init /\ [][Next]_vars

----------------------------------------------------------------------------
(* The Router and the renders it starts, over a cache and a localStorage that
   saves have filled *)

RouterNext ==
  \/ \E r \in Registrations : registerModule(r[1], r[2])
  \/ \E n \in ViewNames : navigate(n)
  \/ \E i \in 1..MaxPending, o \in Outcomes : FetchDone(i, o)
  \/ \E n \in SaveNames, v \in SaveVals : Save(n, v, FALSE)

RouterSpec == Init /\ [][RouterNext]_vars

----------------------------------------------------------------------------
(* The DataManager and the ThemeManager over localStorage, with a router that
   renders no module *)

DmSaveNames == {"tasks.json", "documents.json"}
DmLoadNames == {"tasks.json", "settings.json"}
DefaultNames == {"tasks.json", "settings.json"} \cup ProtoKeys
DmViewNames == {"settings"}

DmNext ==
  \/ \E n \in DmLoadNames : Load(n)
  \/ \E i \in 1..MaxPending, o \in Outcomes : FetchDone(i, o)
  \/ \E n \in DmSaveNames, v \in SaveVals, q \in BOOLEAN : Save(n, v, q)
  \/ \E n \in DefaultNames : Default(n)
  \/ themeInit
  \/ toggleTheme
  \/ \E r \in Registrations : registerModule(r[1], r[2])
  \/ \E n \in DmViewNames : navigate(n)

DmSpec == Init /\ [][DmNext]_vars

----------------------------------------------------------------------------
(* The ThemeManager over a localStorage that other pages of the origin, or
   an earlier visit, may have written *)

\* what the theme key holds when the page is opened: nothing, a theme, the
\* empty string, or some other string
StoredThemes == {"none", "light", "dark", "", "blue"}

ThemeStores ==
  {IF v = "none" THEN EmptyObject ELSE themeStore(EmptyObject, v) :
     v \in StoredThemes}

ThemeInit == \E s \in ThemeStores : Start(s)

ThemeNext ==
  \/ themeInit
  \/ toggleTheme
  \/ \E n \in DmSaveNames, v \in SaveVals, q \in BOOLEAN : Save(n, v, q)
  \/ Reload

ThemeSpec == ThemeInit /\ [][ThemeNext]_vars

----------------------------------------------------------------------------
(* The DataManager with the objects it hands out kept by address: the cache
   holds references, and a caller may assign to a property of an object that
   a load returned to it *)

Ref(k) == [t |-> "ref", at |-> k]

\* an object: its value, the code that made it, the name it was made for
Cell(v, by, name) == [v |-> v, by |-> by, name |-> name]

\* faulty variant of defaultAt: the defaults table is kept between calls, so
\* the same object is returned for a name every time
defaultAtShared(h, name) ==
  IF \E k \in DOMAIN h : h[k].by = "default" /\ h[k].name = name
  THEN CHOOSE k \in DOMAIN h : h[k].by = "default" /\ h[k].name = name
  ELSE Len(h) + 1

\* the address of the object getDefaultData returns: the literal of lines
\* 85-91 is evaluated in every call, which makes new objects
defaultAt(h, name) == Len(h) + 1

RefNames == {"tasks.json", "documents.json"}

\* a caller awaits dataManager.load(fileName)
LoadRef(fileName) ==
  /\ ops < MaxOps
  /\ ops' = ops + 1
  /\ IF loadHit(cache, fileName)
     THEN /\ last' = [NoCall EXCEPT !.op = "load", !.name = fileName,
                                    !.result = cache[fileName], !.own = TRUE]
          /\ pending' = pending
     ELSE /\ Len(pending) < MaxPending
          /\ pending' = Append(pending,
                               Task("load", "client", 0, fileName, FALSE, Here))
          /\ last' = last
  /\ UNCHANGED <<cache, store, currentView, modules, app, editorStyles,
                 currentTheme, currentDoc, currentProject, linked, ids, heap,
                 durable, did, nav, untouched, dropped, failed, invoked, regs>>

\* the fetch of the i-th suspended load ends with outcome o
FetchDoneRef(i, o) ==
  /\ i \in 1..Len(pending)
  /\ LET name == pending[i].name
         at == IF o.kind = "ok" THEN Len(heap) + 1 ELSE defaultAt(heap, name)
         cell == IF o.kind = "ok" THEN Cell(o.v, "retrieved", name)
                 ELSE Cell(getDefaultData(name), "default", name)
     IN /\ heap' = IF at > Len(heap) THEN Append(heap, cell) ELSE heap
        /\ cache' = loadCache(cache, name, [o EXCEPT !.v = Ref(at)])
        /\ last' = [NoCall EXCEPT !.op = "load", !.name = name,
                                  !.result = Ref(at), !.retrieved = TRUE,
                                  !.outcome = o.kind]
  /\ pending' = Remove(pending, i)
  /\ UNCHANGED <<store, currentView, modules, app, editorStyles, currentTheme,
                 currentDoc, currentProject, linked, ids, durable, did, nav,
                 untouched, dropped, failed, invoked, regs, ops>>

\* a caller assigns to a property of the object at address k, as markDone
\* does with dashData.lastUpdated (line 266)
Mutate(k) ==
  /\ ops < MaxOps
  /\ ops' = ops + 1
  /\ k \in DOMAIN heap
  /\ heap' = [heap EXCEPT ![k].v = Put(@, "lastUpdated", JStr("now"))]
  /\ UNCHANGED <<cache, store, pending, currentView, modules, app,
                 editorStyles, currentTheme, currentDoc, currentProject, linked,
                 ids, durable, did, last, nav, untouched, dropped, failed,
                 invoked, regs>>

\* dataManager.save(fileName, data), data being the object at address k
SaveRef(fileName, k) ==
  /\ ops < MaxOps
  /\ ops' = ops + 1
  /\ k \in DOMAIN heap
  /\ cache' = saveCache(cache, fileName, Ref(k))
  /\ store' = saveStore(store, fileName, heap[k].v)
  /\ last' = [NoCall EXCEPT !.op = "save", !.name = fileName, !.arg = Ref(k),
                            !.result = JBool(TRUE)]
  /\ UNCHANGED <<pending, currentView, modules, app, editorStyles,
                 currentTheme, currentDoc, currentProject, linked, ids, heap,
                 durable, did, nav, untouched, dropped, failed, invoked, regs>>

RefNext ==
  \/ \E n \in RefNames : LoadRef(n)
  \/ \E i \in 1..MaxPending, o \in Outcomes : FetchDoneRef(i, o)
  \/ \E k \in 1..MaxOps : Mutate(k)
  \/ \E n \in RefNames, k \in 1..MaxOps : SaveRef(n, k)

RefSpec == Init /\ [][RefNext]_vars

----------------------------------------------------------------------------
(* The operations of the four list modules, one view open at a time *)

\* the registrations of lines 1667-1671
StartupModules ==
  [dashboard |-> Module("dashboard"), docs |-> Module("docLibrary"),
   knowledge |-> Module("knowledgeEnv"), writing |-> Module("writingStudio"),
   management |-> Module("management")]

ViewOf ==
  [docLibrary |-> "docs", knowledgeEnv |-> "knowledge",
   writingStudio |-> "writing", management |-> "management"]

\* the body the server answers for a document: one entity, id "s"
Seed(name) ==
  CASE name = "tasks.json" ->
         JObj(<<Prop("tasks", JArr(<<JObj(<<Prop("id", JStr("s")),
                                            Prop("title", JStr("seed")),
                                            Prop("status", JStr("pending"))>>)>>)),
                Prop("reviews", JArr(<<>>)),
                Prop("metrics", JObj(<<Prop("totalTasks", JNum(1)),
                                       Prop("completedTasks", JNum(0))>>))>>)
    [] name = "documents.json" ->
         JObj(<<Prop("documents", JArr(<<JObj(<<Prop("id", JStr("s")),
                                                Prop("title", JStr("seed"))>>)>>))>>)
    [] name = "knowledge.json" ->
         JObj(<<Prop("items", JArr(<<JObj(<<Prop("id", JStr("s")),
                                            Prop("title", JStr("seed")),
                                            Prop("highlights", JNum(0)),
                                            Prop("notes", JNum(0)),
                                            Prop("userNotes", JArr(<<>>))>>)>>))>>)
    [] name = "writing_projects.json" ->
         JObj(<<Prop("projects", JArr(<<JObj(<<Prop("id", JStr("s")),
                                               Prop("title", JStr("seed")),
                                               Prop("parts", JArr(<<>>)),
                                               Prop("wordCount", JNum(0))>>)>>))>>)
    [] OTHER -> DocR

Titles == {"", "t"}
StatusVals == {"pending", "completed"}
EntityIds == {"1", "s"}
ItemIds == {"", "1"}
PartNames == {"", "p"}
Notes == {"", "n"}
WordCounts == {0, 3}

\* the state once the start-up script has run, the user has opened the view
\* of module m, and every fetch so far has failed
ModInit ==
  \E m \in DOMAIN ListDoc :
    /\ cache = EmptyObject
    /\ store = themeStore(EmptyObject, "light")
    /\ pending = <<>>
    /\ currentView = JStr(ViewOf[m])
    /\ modules = StartupModules
    /\ app = Content(m, TRUE)
    /\ editorStyles = JNull
    /\ currentTheme = "light"
    /\ last = NoCall
    /\ nav = [NoNav EXCEPT !.name = ViewOf[m], !.prev = JStr("dashboard"),
                           !.found = Module(m), !.rendered = <<m>>,
                           !.latest = [id |-> m, replaced |-> "none"]]
    /\ untouched = {}
    /\ dropped = {}
    /\ failed = {}
    /\ invoked = [id |-> m, by |-> "navigate"]
    /\ regs = [n \in DOMAIN StartupModules |->
                [id |-> StartupModules[n].id, replaced |-> "none"]]
    /\ currentDoc = JNull
    /\ currentProject = JNull
    /\ linked = {}
    /\ ids = 0
    /\ heap = <<>>
    /\ durable = EmptyObject
    /\ did = NoOp
    /\ ops = 0

\* the page is reloaded and the view of module m opened, every fetch failing
Reopen(m) ==
  /\ ops < MaxOps
  /\ ops' = ops + 1
  /\ cache' = EmptyObject
  /\ store' = themeStore(store, readTheme(store))
  /\ pending' = <<>>
  /\ currentView' = JStr(ViewOf[m])
  /\ app' = Content(m, TRUE)
  /\ nav' = [NoNav EXCEPT !.name = ViewOf[m], !.prev = JStr("dashboard"),
                          !.found = Module(m), !.rendered = <<m>>,
                          !.latest = [id |-> m, replaced |-> "none"]]
  /\ invoked' = [id |-> m, by |-> "navigate"]
  /\ last' = NoCall
  /\ untouched' = {}
  /\ dropped' = Stored
  /\ failed' = {}
  /\ currentDoc' = JNull
  /\ currentProject' = JNull
  /\ linked' = {}
  /\ ids' = ids
  /\ did' = NoOp
  /\ heap' = <<>>
  /\ UNCHANGED <<modules, editorStyles, currentTheme, regs, durable>>

\* a module operation leaves the state S
Operate(S) ==
  /\ ops < MaxOps
  /\ ops' = ops + 1
  /\ Len(S.pending) <= MaxOverlap
  /\ Assign(S)
  /\ UNCHANGED <<heap, currentView, modules, editorStyles, currentTheme, nav, invoked,
                 regs>>

\* the operations, each invoked from the view of its module
SaveTask(title, status) ==
  /\ app.owner = "management"
  /\ Operate(saveTask(Here, title, status))

CompleteTask(id) ==
  /\ app.owner = "management"
  /\ Operate(completeTask(Here, id))

DeleteTask(id, confirmed) ==
  /\ app.owner = "management"
  /\ Operate(delete(Here, "deleteTask", "tasks.json", id, confirmed))

CreateNewDoc ==
  /\ app.owner = "docLibrary"
  /\ Operate(createNewDoc(Here))

EditDoc(id) ==
  /\ app.owner = "docLibrary"
  /\ Operate(editDoc(Here, id))

SaveDoc(title) ==
  /\ app.owner = "docLibrary"
  /\ Operate(saveDoc(Here, title))

DeleteDoc(id, confirmed) ==
  /\ app.owner = "docLibrary"
  /\ Operate(delete(Here, "deleteDoc", "documents.json", id, confirmed))

SaveItem(title, itemId) ==
  /\ app.owner = "knowledgeEnv"
  /\ Operate(saveItem(Here, title, itemId))

AddHighlight(id) ==
  /\ app.owner = "knowledgeEnv"
  /\ Operate(addHighlight(Here, id))

AddNote(id, note) ==
  /\ app.owner = "knowledgeEnv"
  /\ Operate(addNote(Here, id, note))

DeleteItem(id, confirmed) ==
  /\ app.owner = "knowledgeEnv"
  /\ Operate(delete(Here, "deleteItem", "knowledge.json", id, confirmed))

SaveNewProject(title) ==
  /\ app.owner = "writingStudio"
  /\ Operate(saveNewProject(Here, title))

OpenProject(id) ==
  /\ app.owner = "writingStudio"
  /\ Operate(openProject(Here, id))

AddPart(partName) ==
  /\ app.owner = "writingStudio"
  /\ Operate(addPart(Here, partName))

SaveSection(words) ==
  /\ app.owner = "writingStudio"
  /\ Operate(saveSection(Here, words))

DeleteProject(id, confirmed) ==
  /\ app.owner = "writingStudio"
  /\ Operate(delete(Here, "deleteProject", "writing_projects.json", id,
                    confirmed))

\* the fetch of the i-th suspended load fails, or answers the document's seed
Fetched(i, ok) ==
  /\ i \in 1..Len(pending)
  /\ FetchDone(i, IF ok THEN [kind |-> "ok", v |-> Seed(pending[i].name)]
                  ELSE [kind |-> "network", v |-> Undefined])

ModNext ==
  \/ \E t \in Titles, st \in StatusVals : SaveTask(t, st)
  \/ \E id \in EntityIds : CompleteTask(id)
  \/ \E id \in EntityIds, c \in BOOLEAN : DeleteTask(id, c)
  \/ CreateNewDoc
  \/ \E id \in EntityIds : EditDoc(id)
  \/ \E t \in Titles : SaveDoc(t)
  \/ \E id \in EntityIds, c \in BOOLEAN : DeleteDoc(id, c)
  \/ \E t \in Titles, id \in ItemIds : SaveItem(t, id)
  \/ \E id \in EntityIds : AddHighlight(id)
  \/ \E id \in EntityIds, n \in Notes : AddNote(id, n)
  \/ \E id \in EntityIds, c \in BOOLEAN : DeleteItem(id, c)
  \/ \E t \in Titles : SaveNewProject(t)
  \/ \E id \in EntityIds : OpenProject(id)
  \/ \E n \in PartNames : AddPart(n)
  \/ \E w \in WordCounts : SaveSection(w)
  \/ \E id \in EntityIds, c \in BOOLEAN : DeleteProject(id, c)
  \/ \E i \in 1..MaxOverlap, ok \in BOOLEAN : Fetched(i, ok)
  \/ \E m \in DOMAIN ListDoc : Reopen(m)

ModSpec == ModInit /\ [][ModNext]_vars

----------------------------------------------------------------------------
(* Claims *)

TasksDefault ==
  JObj(<<Prop("tasks", JArr(<<>>)), Prop("reviews", JArr(<<>>)),
         Prop("metrics", JObj(<<>>))>>)

\* C1: a load of one of the five documents whose retrieval failed (network,
\* HTTP status or parse error) returns without raising, and returns that
\* document's default shape, never null or undefined; for tasks.json the
\* shape is {tasks: [], reviews: [], metrics: {}}.
C1_FailedLoadReturnsDefault ==
  (last.op = "load" /\ last.outcome \in {"network", "http", "parse"}
     /\ last.name \in DocNames)
    => /\ ~last.threw
       /\ last.result = defaults[last.name]
       /\ Readable(last.result)
       /\ last.name = "tasks.json" => last.result = TasksDefault

C1_Witness ==
  /\ last.op = "load"
  /\ last.outcome = "http"
  /\ last.name = "tasks.json"
  /\ last.result = TasksDefault

\* C2: a load(name) issued right after save(name, v) returns v and performs
\* no retrieval, for every JSON value v, the falsy ones included.
C2_SaveThenLoadReturnsSaved ==
  (last.op = "load" /\ last.saved # Undefined)
    => (~last.retrieved /\ last.result = last.saved)

\* C3: a load(name) issued right after a load(name) that completed having
\* performed a retrieval, whatever its outcome, performs no retrieval.
C3_SecondLoadIsCacheHit ==
  last.op = "load" => ~(last.again /\ last.retrieved)

\* C4: a load(name) issued after a cache clear or a page reload that followed
\* the last save(name, v) returns the value localStorage holds for name.
C4_SavedDocumentPersists ==
  (last.op = "load" /\ last.dropped /\ StoreKey(last.name) \in DOMAIN store)
    => Stringify(last.result) = store[StoreKey(last.name)]

\* C5: the cache entry of the name the last load or save was about, if there
\* is one, is the value that call was given (save) or produced (load); a load
\* during which a save of the same name ran is left aside, the order of the
\* two being open.
C5_CacheReflectsLastCall ==
  (last.op \in {"load", "save"} /\ ~last.overlapped /\ last.name \in DOMAIN cache)
    => cache[last.name] = IF last.op = "save" THEN last.arg ELSE last.result

\* C6: the first load(name) after a cache clear, for any name not written to
\* the cache since, performs a retrieval.
C6_LoadAfterClearRetrieves ==
  (last.op = "load" /\ last.first) => last.retrieved

C8_NavigateRendersRegisteredModule ==
  (nav.name \in DOMAIN modules /\ nav.found = modules[nav.name])
    => nav.rendered = <<modules[nav.name].id>> /\ ~nav.threw

C8_Witness ==
  /\ nav.name = "dashboard"
  /\ nav.prev = JStr("dashboard")
  /\ "dashboard" \in DOMAIN modules
  /\ nav.found = modules["dashboard"]
  /\ nav.rendered = <<"dashboard">>

\* C9: a navigate(name) to a name never passed to registerModule does not
\* raise, invokes no render and shows the placeholder.
C9_UnregisteredShowsPlaceholder ==
  nav.name \in ViewNames \ RegNames
    => ~nav.threw /\ nav.rendered = <<>> /\ nav.placeholder

\* C10: the current view is null as long as navigate was not called on this
\* router, and from a navigate(name) call on it is name, registered or not,
\* already current or not.
C10_CurrentViewIsLastNavigated ==
  currentView = IF nav = NoNav THEN JNull ELSE JStr(nav.name)

C10_Witness ==
  /\ nav.name = "settings"
  /\ nav.prev = JStr("settings")
  /\ nav.placeholder
  /\ currentView = JStr("settings")

\* C11: every render() of a view module is invoked by Router.navigate, never
\* by a module operation.
C11_NavigateIsSoleRenderEntry ==
  invoked.by \in {"none", "navigate"}

\* C12: every view name passed to registerModule maps to exactly the module of
\* the last registerModule call for it, and a navigate to a registered name
\* renders the module registered last at that moment and no other.
C12_LastRegistrationWins ==
  /\ DOMAIN modules = DOMAIN regs
  /\ \A n \in DOMAIN regs : modules[n] = Module(regs[n].id)
  /\ nav.latest.id # "none" => nav.rendered = <<nav.latest.id>>

C12_Witness ==
  /\ nav.name = "docs"
  /\ nav.latest = [id |-> "management", replaced |-> "docLibrary"]
  /\ nav.rendered = <<"management">>
  /\ modules["docs"] = Module("management")

\* C13: every navigate that shows the placeholder (no module under the name)
\* writes an entry to the console.
C13_UnregisteredNavigateIsLogged ==
  nav.placeholder => nav.logged # <<>>

\* C15: after the save(name, v) that completed last, the cache entry of name
\* is v and the value stored for name, if there is one, is the JSON text of v:
\* the cache and localStorage never hold the values of two different saves.
C15_LastSaveWinsInCacheAndStore ==
  (last.op = "save" /\ StoreKey(last.name) \in DOMAIN store)
    => /\ PlainLookup(cache, last.name) = last.arg
       /\ store[StoreKey(last.name)] = Stringify(last.arg)

\* C16: a step that removes an entry from the cache is the cache clear of
\* DashboardModule.refresh, or a page reload (which constructs a new, empty
\* DataManager); no load, save, registerModule or navigate removes one.
C16_EntriesRemovedOnlyByClear ==
  [][(\E n \in DOMAIN cache : n \notin DOMAIN cache') => (Refresh \/ Reload)]_vars

C16_Witness ==
  /\ last.op = "clear"
  /\ "tasks.json" \in last.cleared
  /\ "tasks.json" \notin DOMAIN cache

\* C14: each of the five documents the modules load has an explicit default,
\* and getDefaultData of any other name returns an empty object.
C14_DefaultTableIsTotal ==
  /\ \A i \in DOMAIN DashNames : DashNames[i] \in DOMAIN defaults
  /\ \A m \in DOMAIN ListDoc : ListDoc[m] \in DOMAIN defaults
  /\ last.op = "getDefaultData"
       => last.result = IF last.name \in DocNames THEN defaults[last.name]
                        ELSE JObj(<<>>)

\* C17: save(name, v) leaves every cache entry but that of name, every
\* localStorage key but "btk_" + name (the theme key included), the router's
\* current view and registry, and the current theme as they were.
C17_SaveWritesOneDocumentOnly ==
  [][\A n \in DmSaveNames, v \in SaveVals, q \in BOOLEAN :
       Save(n, v, q) =>
         /\ DOMAIN cache' = DOMAIN cache \cup {n}
         /\ \A k \in DOMAIN cache \ {n} : cache'[k] = cache[k]
         /\ DOMAIN store' \subseteq DOMAIN store \cup {"btk_" \o n}
         /\ \A k \in DOMAIN store \ {"btk_" \o n} :
              k \in DOMAIN store' /\ store'[k] = store[k]
         /\ currentView' = currentView /\ modules' = modules
         /\ currentTheme' = currentTheme]_vars

C17_Witness ==
  /\ last.op = "save" /\ last.name = "tasks.json" /\ ~last.threw
  /\ "documents.json" \in DOMAIN cache
  /\ "btk_documents.json" \in DOMAIN store
  /\ "btk_tasks.json" \in DOMAIN store
  /\ last.others = {"btk_documents.json", ThemeKey}
  /\ store[ThemeKey] = "dark"

\* the cached document of the operation that finished last
DidDoc == PlainLookup(cache, did.doc)

\* C18: whenever no operation is suspended, if the module operation that
\* finished last left the cached document different from what load gave it
\* (or, when it loaded nothing first, from what it was when the operation
\* began), localStorage holds the text of the cached document.
C18_MutationsArePersisted ==
  (/\ pending = <<>>
   /\ did.op \in {"saveTask", "deleteTask", "saveDoc", "deleteDoc", "saveItem",
                  "deleteItem", "saveNewProject", "addPart", "saveSection",
                  "deleteProject"}
   /\ DidDoc # (IF did.loaded THEN did.data ELSE did.start))
    => /\ StoreKey(did.doc) \in DOMAIN store
       /\ store[StoreKey(did.doc)] = Stringify(DidDoc)

\* C19: a form save (saveTask, saveItem, saveNewProject, saveDoc) whose title
\* field is empty performs no load and no save and leaves the cached document
\* as it was.
C19_EmptyTitleNeverReachesStore ==
  (did.op \in {"saveTask", "saveItem", "saveNewProject", "saveDoc"}
     /\ did.title = "")
    => ~did.loaded /\ ~did.saved /\ DidDoc = did.start

\* C20: an accepted delete saves a document whose entities are those of the
\* document before it, in memory and in localStorage, without the one of the
\* given id and in the same order; a declined delete performs no load and no
\* save; and no other operation saves a document with fewer entities than the
\* document stored before it.
C20_DeleteRemovesExactlyOneEntity ==
  LET Deletes == {"deleteTask", "deleteDoc", "deleteItem", "deleteProject"}
      Without(v) == SelectSeq(Entities(did.doc, v),
                              LAMBDA e : Get(e, "id") # JStr(did.id))
  IN /\ (did.op \in Deletes /\ did.confirmed)
          => /\ did.saved
             /\ Entities(did.doc, did.after) = Without(did.data)
             /\ did.before # Undefined
                  => Entities(did.doc, did.after) = Without(did.before)
     /\ (did.op \in Deletes /\ ~did.confirmed)
          => ~did.loaded /\ ~did.saved /\ DidDoc = did.start
     /\ (did.op \notin Deletes /\ did.saved /\ did.before # Undefined)
          => Len(Entities(did.doc, did.after))
               >= Len(Entities(did.doc, did.before))

\* C21: whatever the theme key held when the page was opened, after init and
\* after every toggleTheme the theme key holds currentTheme, which is "light"
\* or "dark"; a toggleTheme turns light into dark and dark into light; and
\* the value under the theme key changes in a toggleTheme only, not in init.
C21_ThemeIsLightOrDarkWrittenOnToggle ==
  [][/\ (themeInit \/ toggleTheme)
          => /\ ThemeKey \in DOMAIN store'
             /\ store'[ThemeKey] = currentTheme'
             /\ currentTheme' \in {"light", "dark"}
     /\ toggleTheme
          => /\ currentTheme = "light" => currentTheme' = "dark"
             /\ currentTheme = "dark" => currentTheme' = "light"
     /\ (/\ ThemeKey \in DOMAIN store'
         /\ ThemeKey \in DOMAIN store => store[ThemeKey] # store'[ThemeKey])
          => toggleTheme]_vars

\* C22: when the retrieval of a load(name) ends after a save(name, v) that
\* ran while the load was suspended, and that save is the last DataManager
\* call before it, the cache entry of name is still v.
C22_SaveDuringLoadSurvives ==
  [][\A i \in 1..Len(pending), o \in Outcomes :
       (/\ FetchDone(i, o)
        /\ pending[i].kind = "load" /\ pending[i].overlapped
        /\ last.op = "save" /\ last.name = pending[i].name)
         => PlainLookup(cache', pending[i].name) = last.arg]_vars

\* C23: once no render is suspended any more, #app holds the content of the
\* module the last navigate found under the current view (the placeholder
\* when it found none), and no render continuation has raised for having
\* found its containers replaced.
C23_SettledAppShowsCurrentView ==
  (pending = <<>> /\ currentView # JNull /\ ~nav.threw)
    => /\ failed = {}
       /\ app.owner = IF Truthy(nav.found) THEN nav.found.id ELSE "placeholder"

\* the entity of id in the document value v of the last operation
DidEntity(v, id) == find(Entities(did.doc, v), id)

\* C24: a saveTask or an addHighlight that saves after another save of the
\* same document ran while it was suspended at its load keeps what that save
\* stored: the document it saves, to the cache and to localStorage, holds
\* every task stored before it, and one highlight more than was stored.
C24_OverlappingUpdatesAreKept ==
  (did.overlapped /\ did.saved /\ did.before # Undefined)
    => /\ did.op = "saveTask"
            => \A i \in DOMAIN Entities(did.doc, did.before) :
                 DidEntity(did.after, Get(Entities(did.doc, did.before)[i], "id").s)
                   # Undefined
       /\ (did.op = "addHighlight" /\ DidEntity(did.before, did.id) # Undefined)
            => Count(DidEntity(did.after, did.id), "highlights")
                 = Count(DidEntity(did.before, did.id), "highlights") + 1

\* C25: a save(name, v) whose localStorage write raises leaves the cache and
\* localStorage as they were.
C25_FailedSaveChangesNothing ==
  [][\A n \in SaveNames, v \in SaveVals :
       Save(n, v, TRUE) => cache' = cache /\ store' = store]_vars

\* C26: the tasks document a saveTask, completeTask or deleteTask saves has
\* metrics.totalTasks equal to the number of its tasks and
\* metrics.completedTasks equal to the number of its tasks whose status is
\* 'completed'.
C26_TaskMetricsMatchTasks ==
  (did.op \in {"saveTask", "completeTask", "deleteTask"} /\ did.saved)
    => LET tasks == Entities("tasks.json", did.after)
           metrics == Get(did.after, "metrics")
       IN /\ Get(metrics, "totalTasks") = JNum(Len(tasks))
          /\ Get(metrics, "completedTasks") = JNum(completedTasks(tasks))

\* no two entries of the documents array of v share an id
UniqueIds(v) ==
  LET docs == Entities("documents.json", v)
  IN \A i, j \in DOMAIN docs :
       (i # j /\ Readable(docs[i]) /\ Readable(docs[j]))
         => Get(docs[i], "id") # Get(docs[j], "id")

\* C27: no two entries of the documents array share an id, in the cached
\* document and in the one localStorage holds, whatever createNewDoc, editDoc,
\* saveDoc and deleteDoc operations ran, overlapping or not; and the array a
\* saveDoc saves is the one it loaded with the entry of the current
\* document's id replaced by the current document when there is one, and
\* with the current document appended otherwise.
C27_DocumentIdsAreUnique ==
  /\ "documents.json" \in DOMAIN cache => UniqueIds(cache["documents.json"])
  /\ "documents.json" \in DOMAIN durable => UniqueIds(durable["documents.json"])
  /\ (did.op = "saveDoc" /\ did.saved)
       => LET before == Entities("documents.json", did.data)
              after == Entities("documents.json", did.after)
              doc == did.entity
          IN IF Readable(doc) /\ find(before, Get(doc, "id").s) # Undefined
             THEN /\ Len(after) = Len(before)
                  /\ \A i \in DOMAIN before :
                       after[i] = IF Get(before[i], "id") = Get(doc, "id")
                                  THEN doc ELSE before[i]
             ELSE after = Append(before, doc)

C27_Witness ==
  /\ did.op = "saveDoc" /\ did.saved
  /\ Len(Entities("documents.json", did.data)) = 2
  /\ find(Entities("documents.json", did.data), did.id) # Undefined
  /\ Len(Entities("documents.json", cache["documents.json"])) = 2
  /\ find(Entities("documents.json", cache["documents.json"]), did.id)
       = currentDoc

\* the length of item.userNotes
NotesKept(item) ==
  IF Truthy(Get(item, "userNotes")) THEN Len(Get(item, "userNotes").a) ELSE 0

\* every item of the knowledge document v has notes equal to the length of
\* its userNotes
NotesCounted(v) ==
  \A i \in DOMAIN Entities("knowledge.json", v) :
    LET item == Entities("knowledge.json", v)[i]
    IN Get(item, "notes") = JNum(NotesKept(item))

\* C28: every item of the knowledge document, in the cache and in
\* localStorage, has its notes counter equal to the length of its userNotes;
\* an addNote with a non-empty text saves the item it found with notes and
\* userNotes one more and highlights as they were, and one with an empty text
\* loads and saves nothing; an addHighlight saves the item it found with
\* highlights one more and the notes as they were; a saveItem that edits an
\* item leaves its three fields as they were; and the item an addNote or an
\* addHighlight found, when saveItem created it, is the item localStorage
\* held.
C28_NotesCountersMatch ==
  LET old == DidEntity(did.data, did.id)
      new == DidEntity(did.after, did.id)
  IN /\ "knowledge.json" \in DOMAIN cache => NotesCounted(cache["knowledge.json"])
     /\ "knowledge.json" \in DOMAIN durable
          => NotesCounted(durable["knowledge.json"])
     /\ (did.op = "addNote" /\ did.title = "") => ~did.loaded /\ ~did.saved
     /\ (did.op = "addNote" /\ did.loaded) => (did.saved <=> old # Undefined)
     /\ (did.op = "addNote" /\ did.saved)
          => /\ Get(new, "notes") = JNum(Count(old, "notes") + 1)
             /\ NotesKept(new) = NotesKept(old) + 1
             /\ Get(new, "highlights") = Get(old, "highlights")
     /\ (did.op = "addHighlight" /\ did.loaded) => (did.saved <=> old # Undefined)
     /\ (did.op = "addHighlight" /\ did.saved)
          => /\ Get(new, "highlights") = JNum(Count(old, "highlights") + 1)
             /\ Get(new, "notes") = Get(old, "notes")
             /\ Get(new, "userNotes") = Get(old, "userNotes")
     /\ (did.op = "saveItem" /\ did.id # "" /\ did.saved /\ old # Undefined)
          => /\ Get(new, "highlights") = Get(old, "highlights")
             /\ Get(new, "notes") = Get(old, "notes")
             /\ Get(new, "userNotes") = Get(old, "userNotes")
     /\ (/\ did.op \in {"addNote", "addHighlight"} /\ did.saved
         /\ find(Entities("knowledge.json", Seed("knowledge.json")), did.id)
              = Undefined
         /\ did.before # Undefined)
          => old = DidEntity(did.before, did.id)

C28_Witness ==
  /\ did.op = "addNote" /\ did.id = "1" /\ did.saved
  /\ "knowledge.json" \in DOMAIN cache
  /\ LET item == find(Entities("knowledge.json", cache["knowledge.json"]), "1")
     IN /\ item # Undefined
        /\ Get(item, "highlights") = JNum(1)
        /\ Get(item, "notes") = JNum(1)
        /\ NotesKept(item) = 1

\* C29: the object a failed load returns is a new one, which is neither an
\* object an earlier load returned nor an object the cache refers to, and it
\* is the pristine default of the name whatever was assigned to the objects
\* returned before; the failed load changes neither the cache nor any object
\* that exists; and an assignment to an object that a failed load returned,
\* and that was not passed to save since, changes no other object and no
\* cache entry.
C29_FailedLoadReturnsFreshDefault ==
  [][/\ \A i \in 1..Len(pending), o \in Outcomes :
          (FetchDoneRef(i, o) /\ o.kind # "ok")
            => LET at == last'.result.at
               IN /\ at \notin DOMAIN heap
                  /\ \A n \in DOMAIN cache' : cache'[n].at # at
                  /\ heap'[at].v = getDefaultData(pending[i].name)
                  /\ cache' = cache
                  /\ \A k \in DOMAIN heap : heap'[k] = heap[k]
     /\ \A k \in DOMAIN heap :
          (/\ Mutate(k)
           /\ heap[k].by = "default"
           /\ \A n \in DOMAIN cache : cache[n].at # k)
            => /\ cache' = cache
               /\ \A j \in DOMAIN heap \ {k} : heap'[j] = heap[j]]_vars

\* a failed load returned an object, the caller assigned to it, and a later
\* failed load of the same name returned another object, the default
C29_Witness ==
  /\ last.op = "load" /\ last.outcome = "network" /\ last.name = "tasks.json"
  /\ last.result = Ref(2)
  /\ heap[1].by = "default" /\ heap[1].name = "tasks.json"
  /\ heap[1].v # getDefaultData("tasks.json")
  /\ heap[2].v = getDefaultData("tasks.json")
  /\ "tasks.json" \notin DOMAIN cache

\* C30: a registerModule(name, module) step changes the registry entry of
\* name and nothing else: not the other entries, the current view, #app,
\* the suspended calls, the cache or localStorage, and it invokes no render;
\* a navigate step changes neither the registry nor the cache nor
\* localStorage.
C30_RouterFrame ==
  [][/\ \A r \in Registrations :
          registerModule(r[1], r[2])
            => /\ DOMAIN modules' = DOMAIN modules \cup {r[1]}
               /\ \A n \in DOMAIN modules \ {r[1]} : modules'[n] = modules[n]
               /\ currentView' = currentView
               /\ invoked' = invoked /\ pending' = pending /\ app' = app
               /\ cache' = cache /\ store' = store
     /\ \A n \in ViewNames :
          navigate(n) => modules' = modules /\ cache' = cache /\ store' = store]_vars

\* a navigate has rendered a module whose load found the document that the
\* save before it had put in the cache and in localStorage, the registry
\* holding two modules
C30_Witness ==
  /\ nav.name = "docs" /\ nav.rendered = <<"management">>
  /\ currentView = JStr("docs")
  /\ DOMAIN modules = {"dashboard", "docs"}
  /\ last.op = "load" /\ last.name = "tasks.json" /\ ~last.retrieved
  /\ last.saved = DocA
  /\ PlainLookup(cache, "tasks.json") = DocA
  /\ "btk_tasks.json" \in DOMAIN store
  /\ app = Content("management", TRUE)

====
